---- MODULE Spec2Model ----
(***************************************************************************)
(* Sendit backend (src/app.py): the Flask-RESTful resources Signup, Login, *)
(* Users, UserByID, Orders, OrderByID, FeedbackResource, Parcels and       *)
(* Profiles over the five tables of the database.                          *)
(*                                                                         *)
(* Spec     : requests served one at a time, one action per handler.       *)
(* SpecConc : Signup, POST /users and PATCH /users/<id> served by          *)
(*            concurrent workers; a handler is split where it touches the  *)
(*            database (its read, its commit).                             *)
(*                                                                         *)
(* models.py and database.py are not part of the sources: the tables, the  *)
(* primary keys and the unique e-mail column follow the data model of the  *)
(* specification (section 3).  flask_bcrypt and jwt are libraries.         *)
(***************************************************************************)
EXTENDS Naturals, Sequences, FiniteSets, TLC

VARIABLES
    users,      \* table of User rows
    orders,     \* table of Order rows
    feedbacks,  \* table of Feedback rows
    parcels,    \* table of Parcel rows
    profiles,   \* table of Profile rows
    resp,       \* the answer to the last request served (Spec)
    signup_pw,  \* history: user id -> the plaintext given to the Signup that created it
    inflight    \* worker -> the request it is serving (SpecConc)

tables == <<users, orders, feedbacks, parcels, profiles>>
vars == <<users, orders, feedbacks, parcels, profiles, resp, signup_pw, inflight>>

(***************************************************************************)
(* Bounds of the model and the sets the requests draw their fields from.   *)
(***************************************************************************)
MaxId == 2          \* user ids handed out stay within 1..MaxId
MaxOrderId == 2     \* order ids handed out stay within 1..MaxOrderId
MaxOther == 1       \* rows of each of feedbacks, parcels, profiles
MaxClock == 1       \* the clock reads 0..MaxClock when a login starts
MaxSkew == 1        \* the clock advances 0..MaxSkew between the two tokens of a login
MaxPatchKeys == 2   \* keys in the JSON body of a PATCH

Emails == {"a@sendit.io", "b@sendit.io"}
Usernames == {"ann", "bob"}
Roles == {"customer", "admin"}
Passwords == {"pw1", "pw2"}      \* passwords a login is tried with
NewPasswords == {"pw1"}          \* passwords given to Signup, POST /users and PATCH
Salts == {"s1", "s2"}
Statuses == {"pending", "delivered"}
Addresses == {"1 Main St"}
Absent == "<absent>"        \* a field the request does not carry
Procs == {1, 2}

UserIds == 1..MaxId
OrderIds == 1..MaxOrderId

(***************************************************************************)
(* Program constants.                                                      *)
(***************************************************************************)
SECRET_KEY == "9d970c5fb1d04ea380828d9c491448ce"
AccessLifetime == 3600          \* timedelta(hours=1), in seconds
RefreshLifetime == 2592000      \* timedelta(days=30), in seconds

(***************************************************************************)
(* Libraries.  A bcrypt hash is the text "$2b$" salt "$" digest; the       *)
(* digest of a password under a salt is written as the password itself     *)
(* behind the salt, so that two hashes are equal exactly when salt and     *)
(* password are, and a hash is never equal to a password of Passwords.     *)
(***************************************************************************)
generate_password_hash(password, salt) == "$2b$" \o salt \o "$" \o password

IsBcryptHash(text) ==
    \E p \in Passwords, s \in Salts : text = generate_password_hash(p, s)

\* "ok" / "mismatch", or "error" when pw_hash is no bcrypt hash: bcrypt raises
\* ValueError (invalid salt), which Login does not catch.
check_password_hash(pw_hash, password) ==
    IF ~IsBcryptHash(pw_hash) THEN "error"
    ELSE IF \E s \in Salts : pw_hash = generate_password_hash(password, s)
         THEN "ok" ELSE "mismatch"

jwt_encode(payload, key) == [payload |-> payload, key |-> key, alg |-> "HS256"]

(***************************************************************************)
(* Persistence layer.                                                      *)
(***************************************************************************)
Max(S) == CHOOSE m \in S : \A n \in S : n <= m

\* INTEGER PRIMARY KEY of SQLite: one more than the largest id in the table.
NewId(rows) == IF rows = {} THEN 1 ELSE Max({r.id : r \in rows}) + 1

ById(rows, id) == {r \in rows : r.id = id}

\* query.get(id): the row, or None.
None == [id |-> 0]
QueryGet(rows, id) == IF ById(rows, id) = {} THEN None ELSE CHOOSE r \in rows : r.id = id

\* The unique e-mail column: another row already holds this e-mail.
EmailTaken(rows, email, self) == \E u \in rows : u.email = email /\ u.id # self

\* session.add(row); session.commit() on users: IntegrityError on a taken e-mail.
AddUser(rows, row) ==
    IF EmailTaken(rows, row.email, 0)
    THEN [ok |-> FALSE, rows |-> rows]
    ELSE [ok |-> TRUE, rows |-> rows \cup {[row EXCEPT !.id = NewId(rows)]}]

\* session.add(row); session.commit() on a table without constraints.
AddRow(rows, row) == rows \cup {[row EXCEPT !.id = NewId(rows)]}

\* for attr in request.json: setattr(row, attr, request.json.get(attr))
SetAttrs(row, body) ==
    [a \in DOMAIN row |-> IF a \in DOMAIN body THEN body[a] ELSE row[a]]

\* An answer: the handler, the HTTP status, the id of the URL (0 when it has
\* none), the message, the tokens and the row (to_dict()) of the JSON body.
Reply(op, status, id, msg, tokens, row) ==
    [op |-> op, status |-> status, id |-> id, msg |-> msg, tokens |-> tokens, row |-> row]

NoTokens == <<>>

(***************************************************************************)
(* The JSON bodies a PATCH may carry: a value for each key of a set of at  *)
(* most MaxPatchKeys column names.                                         *)
(***************************************************************************)
UserAttrs == {"username", "email", "password", "role"}
OrderAttrs == {"status", "delivery_address"}

AttrValues(a) ==
    CASE a = "username" -> Usernames
      [] a = "email" -> Emails
      [] a = "password" -> NewPasswords
      [] a = "role" -> Roles
      [] a = "status" -> Statuses
      [] a = "delivery_address" -> Addresses

Bodies(attrs) ==
    UNION { {b \in [K -> UNION {AttrValues(a) : a \in K}] : \A a \in K : b[a] \in AttrValues(a)}
            : K \in {K \in SUBSET attrs : Cardinality(K) <= MaxPatchKeys} }

UserPatchBodies == Bodies(UserAttrs)
OrderPatchBodies == Bodies(OrderAttrs)

(***************************************************************************)
(* Signup                                                                  *)
(***************************************************************************)
\* register_args: role defaults to 'customer'
register_role(role) == IF role = Absent THEN "customer" ELSE role

\* A Signup that keeps the password as it came.
SignupNewUser_plain(email, password, username, role, salt) ==
    [id |-> 0, email |-> email, username |-> username,
     role |-> register_role(role), password |-> password]

\* The User that Signup builds (its id is given by the database on commit).
SignupNewUser(email, password, username, role, salt) ==
    [id |-> 0, email |-> email, username |-> username,
     role |-> register_role(role),
     password |-> generate_password_hash(password, salt)]

\* A Signup whose failed write stays in the table and is reported as made.
SignupCommit_norollback(rows, new_user) ==
    [rows |-> rows \cup {[new_user EXCEPT !.id = NewId(rows)]},
     status |-> 201, msg |-> "User created successfully"]

\* try: add, commit -> 201; except: rollback -> 500
SignupCommit(rows, new_user) ==
    LET done == AddUser(rows, new_user)
    IN  IF done.ok
        THEN [rows |-> done.rows, status |-> 201, msg |-> "User created successfully"]
        ELSE [rows |-> rows, status |-> 500,
              msg |-> "An error occurred while creating the user"]

SignupPost(email, password, username, role, salt) ==
    LET new_user == SignupNewUser(email, password, username, role, salt)
        out == SignupCommit(users, new_user)
    IN  /\ out.rows # users => NewId(users) <= MaxId
        /\ users' = out.rows
        /\ resp' = Reply("Signup", out.status, 0, out.msg, NoTokens, None)
        /\ signup_pw' = IF out.rows # users
                        THEN [signup_pw EXCEPT ![NewId(users)] = password]
                        ELSE signup_pw
        /\ UNCHANGED <<orders, feedbacks, parcels, profiles, inflight>>

\* The two tokens: utcnow() is read once for each, at t1 and then at t2.
LoginTokens(user, t1, t2) ==
    << jwt_encode([identity |-> user.id, exp |-> t1 + AccessLifetime], SECRET_KEY),
       jwt_encode([identity |-> user.id, exp |-> t2 + RefreshLifetime], SECRET_KEY) >>

\* filter_by(email).first() -> 404; check_password_hash -> 401 (when it raises,
\* nothing catches it: 500); the tokens -> 200.  jwt.encode does not fail on
\* these payloads, so the except branch of the handler is never taken.
LoginResult(rows, email, password, t1, t2) ==
    LET found == {u \in rows : u.email = email}
    IN  IF found = {}
        THEN [status |-> 404, msg |-> "User does not exist in our database",
              tokens |-> NoTokens]
        ELSE LET user == CHOOSE u \in found : TRUE
                 check == check_password_hash(user.password, password)
             IN  CASE check = "error" ->
                        [status |-> 500, msg |-> "Internal Server Error",
                         tokens |-> NoTokens]
                   [] check = "mismatch" ->
                        [status |-> 401, msg |-> "Password is incorrect!",
                         tokens |-> NoTokens]
                   [] check = "ok" ->
                        [status |-> 200, msg |-> "",
                         tokens |-> LoginTokens(user, t1, t2)]

LoginPost(email, password, t1, t2) ==
    LET out == LoginResult(users, email, password, t1, t2)
    IN  /\ resp' = Reply("Login", out.status, 0, out.msg, out.tokens, None)
        /\ UNCHANGED <<tables, signup_pw, inflight>>

(***************************************************************************)
(* Users, UserByID                                                         *)
(***************************************************************************)
UsersGet ==
    /\ resp' = Reply("Users.get", 200, 0, "", NoTokens, None)
    /\ UNCHANGED <<tables, signup_pw, inflight>>

\* The User that POST /users builds: the fields of the body as they are.
UsersNewUser(username, email, password, role) ==
    [id |-> 0, email |-> email, username |-> username, role |-> role,
     password |-> password]

\* add, commit -> 201; an IntegrityError is not caught -> 500, nothing written
UsersCommit(rows, new_user) ==
    LET done == AddUser(rows, new_user)
    IN  IF done.ok
        THEN [rows |-> done.rows, status |-> 201, msg |-> "",
              row |-> [new_user EXCEPT !.id = NewId(rows)]]
        ELSE [rows |-> rows, status |-> 500, msg |-> "Internal Server Error",
              row |-> None]

UsersPost(username, email, password, role) ==
    LET out == UsersCommit(users, UsersNewUser(username, email, password, role))
    IN  /\ out.rows # users => NewId(users) <= MaxId
        /\ users' = out.rows
        /\ resp' = Reply("Users.post", out.status, 0, out.msg, NoTokens, out.row)
        /\ UNCHANGED <<orders, feedbacks, parcels, profiles, signup_pw, inflight>>

UserGetResult(rows, id) ==
    LET user == QueryGet(rows, id)
    IN  IF user = None
        THEN [status |-> 404, msg |-> "User not found", row |-> None]
        ELSE [status |-> 200, msg |-> "", row |-> user]

UserByIDGet(id) ==
    LET out == UserGetResult(users, id)
    IN  /\ resp' = Reply("UserByID.get", out.status, id, out.msg, NoTokens, out.row)
        /\ UNCHANGED <<tables, signup_pw, inflight>>

\* A commit that writes every column of the row as the request built it: a
\* column the body does not name is reset to its default.
UserPatchCommit_reset(rows, loaded, body) ==
    LET fresh == [id |-> loaded.id, email |-> loaded.email, username |-> "",
                  role |-> "customer", password |-> loaded.password]
        upd == SetAttrs(fresh, body)
    IN  IF EmailTaken(rows, upd.email, loaded.id)
        THEN [rows |-> rows, status |-> 500, msg |-> "Internal Server Error", row |-> None]
        ELSE [rows |-> (rows \ ById(rows, loaded.id)) \cup {upd}, status |-> 200,
              msg |-> "", row |-> upd]

\* A commit without the unique index on the e-mail column.
UserPatchCommit_nounique(rows, loaded, body) ==
    LET upd == SetAttrs(QueryGet(rows, loaded.id), body)
    IN  [rows |-> (rows \ ById(rows, loaded.id)) \cup {upd}, status |-> 200,
         msg |-> "", row |-> upd]

\* setattr for each key of the body, commit: UPDATE users SET the columns whose
\* value differs from the one loaded WHERE id = the row's id.  A row that is
\* gone (StaleDataError) or a taken e-mail (IntegrityError) is not caught:
\* 500, nothing written.
UserPatchCommit(rows, loaded, body) ==
    LET current == QueryGet(rows, loaded.id)
        changed == {a \in DOMAIN body : body[a] # loaded[a]}
        upd == [a \in DOMAIN current |-> IF a \in changed THEN body[a] ELSE current[a]]
    IN  IF current = None \/ EmailTaken(rows, upd.email, loaded.id)
        THEN [rows |-> rows, status |-> 500, msg |-> "Internal Server Error", row |-> None]
        ELSE [rows |-> (rows \ {current}) \cup {upd}, status |-> 200, msg |-> "",
              row |-> upd]

\* A PATCH that creates the row it does not find.
UserPatchResult_upsert(rows, id, body) ==
    LET user == QueryGet(rows, id)
        blank == [id |-> id, email |-> "", username |-> "", role |-> "customer",
                  password |-> ""]
    IN  IF user = None
        THEN [rows |-> rows \cup {SetAttrs(blank, body)}, status |-> 200, msg |-> "",
              row |-> SetAttrs(blank, body)]
        ELSE UserPatchCommit(rows, user, body)

\* get -> 404 when absent; else the setattr loop and the commit
UserPatchResult(rows, id, body) ==
    LET user == QueryGet(rows, id)
    IN  IF user = None
        THEN [rows |-> rows, status |-> 404, msg |-> "User not found", row |-> None]
        ELSE UserPatchCommit(rows, user, body)

UserByIDPatch(id, body) ==
    LET out == UserPatchResult(users, id, body)
    IN  /\ users' = out.rows
        /\ resp' = Reply("UserByID.patch", out.status, id, out.msg, NoTokens, out.row)
        /\ UNCHANGED <<orders, feedbacks, parcels, profiles, signup_pw, inflight>>

UserDeleteResult(rows, id) ==
    LET user == QueryGet(rows, id)
    IN  IF user = None
        THEN [rows |-> rows, status |-> 404, msg |-> "User not found"]
        ELSE [rows |-> rows \ {user}, status |-> 200, msg |-> "User deleted"]

UserByIDDelete(id) ==
    LET out == UserDeleteResult(users, id)
    IN  /\ users' = out.rows
        /\ resp' = Reply("UserByID.delete", out.status, id, out.msg, NoTokens, None)
        /\ signup_pw' = IF out.status = 200 THEN [signup_pw EXCEPT ![id] = Absent]
                        ELSE signup_pw
        /\ UNCHANGED <<orders, feedbacks, parcels, profiles, inflight>>

(***************************************************************************)
(* Orders, OrderByID                                                       *)
(***************************************************************************)
OwnerIds == {1}

OrdersGet ==
    /\ resp' = Reply("Orders.get", 200, 0, "", NoTokens, None)
    /\ UNCHANGED <<tables, signup_pw, inflight>>

OrdersPost(pickup_address, delivery_address, status, user_id) ==
    LET new_order == [id |-> NewId(orders), pickup_address |-> pickup_address,
                      delivery_address |-> delivery_address, status |-> status,
                      user_id |-> user_id]
    IN  /\ NewId(orders) <= MaxOrderId
        /\ orders' = AddRow(orders, new_order)
        /\ resp' = Reply("Orders.post", 201, 0, "", NoTokens, new_order)
        /\ UNCHANGED <<users, feedbacks, parcels, profiles, signup_pw, inflight>>

OrderGetResult(rows, id) ==
    LET order == QueryGet(rows, id)
    IN  IF order = None
        THEN [status |-> 404, msg |-> "Order not found", row |-> None]
        ELSE [status |-> 200, msg |-> "", row |-> order]

OrderByIDGet(id) ==
    LET out == OrderGetResult(orders, id)
    IN  /\ resp' = Reply("OrderByID.get", out.status, id, out.msg, NoTokens, out.row)
        /\ UNCHANGED <<tables, signup_pw, inflight>>

OrderPatchResult(rows, id, body) ==
    LET order == QueryGet(rows, id)
    IN  IF order = None
        THEN [rows |-> rows, status |-> 404, msg |-> "Order not found", row |-> None]
        ELSE [rows |-> (rows \ {order}) \cup {SetAttrs(order, body)}, status |-> 200,
              msg |-> "", row |-> SetAttrs(order, body)]

OrderByIDPatch(id, body) ==
    LET out == OrderPatchResult(orders, id, body)
    IN  /\ orders' = out.rows
        /\ resp' = Reply("OrderByID.patch", out.status, id, out.msg, NoTokens, out.row)
        /\ UNCHANGED <<users, feedbacks, parcels, profiles, signup_pw, inflight>>

\* A DELETE that answers 200 and leaves the row where it is.
OrderDeleteResult_keep(rows, id) ==
    IF QueryGet(rows, id) = None
    THEN [rows |-> rows, status |-> 404, msg |-> "Order not found"]
    ELSE [rows |-> rows, status |-> 200, msg |-> "Order deleted"]

OrderDeleteResult(rows, id) ==
    LET order == QueryGet(rows, id)
    IN  IF order = None
        THEN [rows |-> rows, status |-> 404, msg |-> "Order not found"]
        ELSE [rows |-> rows \ {order}, status |-> 200, msg |-> "Order deleted"]

OrderByIDDelete(id) ==
    LET out == OrderDeleteResult(orders, id)
    IN  /\ orders' = out.rows
        /\ resp' = Reply("OrderByID.delete", out.status, id, out.msg, NoTokens, None)
        /\ UNCHANGED <<users, feedbacks, parcels, profiles, signup_pw, inflight>>

(***************************************************************************)
(* FeedbackResource, Parcels, Profiles                                     *)
(***************************************************************************)
FeedbackGet ==
    /\ resp' = Reply("FeedbackResource.get", 200, 0, "", NoTokens, None)
    /\ UNCHANGED <<tables, signup_pw, inflight>>

\* A POST /feedback that writes its row into the users table.
FeedbackPost_wrongtable(rating, comments, user_id) ==
    /\ Cardinality(feedbacks) < MaxOther
    /\ users' = AddRow(users, [id |-> 0, email |-> comments, username |-> comments,
                               role |-> "customer", password |-> comments])
    /\ NewId(users) <= MaxId
    /\ feedbacks' = AddRow(feedbacks, [id |-> 0, rating |-> rating,
                                       comments |-> comments, user_id |-> user_id])
    /\ resp' = Reply("FeedbackResource.post", 201, 0, "", NoTokens, None)
    /\ UNCHANGED <<orders, parcels, profiles, signup_pw, inflight>>

FeedbackPost(rating, comments, user_id) ==
    LET new_feedback == [id |-> NewId(feedbacks), rating |-> rating,
                         comments |-> comments, user_id |-> user_id]
    IN  /\ Cardinality(feedbacks) < MaxOther
        /\ feedbacks' = AddRow(feedbacks, new_feedback)
        /\ resp' = Reply("FeedbackResource.post", 201, 0, "", NoTokens, new_feedback)
        /\ UNCHANGED <<users, orders, parcels, profiles, signup_pw, inflight>>

ParcelsGet ==
    /\ resp' = Reply("Parcels.get", 200, 0, "", NoTokens, None)
    /\ UNCHANGED <<tables, signup_pw, inflight>>

ParcelsPost(description, weight, dimensions, order_id) ==
    LET new_parcel == [id |-> NewId(parcels), description |-> description,
                       weight |-> weight, dimensions |-> dimensions,
                       order_id |-> order_id]
    IN  /\ Cardinality(parcels) < MaxOther
        /\ parcels' = AddRow(parcels, new_parcel)
        /\ resp' = Reply("Parcels.post", 201, 0, "", NoTokens, new_parcel)
        /\ UNCHANGED <<users, orders, feedbacks, profiles, signup_pw, inflight>>

ProfilesGet ==
    /\ resp' = Reply("Profiles.get", 200, 0, "", NoTokens, None)
    /\ UNCHANGED <<tables, signup_pw, inflight>>

ProfilesPost(user_id, bio, profile_picture) ==
    LET new_profile == [id |-> NewId(profiles), user_id |-> user_id, bio |-> bio,
                        profile_picture |-> profile_picture]
    IN  /\ Cardinality(profiles) < MaxOther
        /\ profiles' = AddRow(profiles, new_profile)
        /\ resp' = Reply("Profiles.post", 201, 0, "", NoTokens, new_profile)
        /\ UNCHANGED <<users, orders, feedbacks, parcels, signup_pw, inflight>>

(***************************************************************************)
(* Requests served one at a time.                                          *)
(***************************************************************************)
Idle == [pc |-> "idle"]

\* The requests to Signup, Login, Users and UserByID whose fields are drawn
\* from the given sets.
UserRequests(emails, passwords, logins, usernames, roles, salts, bodies) ==
    \/ \E e \in emails, pw \in passwords, un \in usernames,
          r \in roles \cup {Absent}, s \in salts : SignupPost(e, pw, un, r, s)
    \/ \E e \in emails, pw \in logins, t \in 0..MaxClock, d \in 0..MaxSkew :
          LoginPost(e, pw, t, t + d)
    \/ UsersGet
    \/ \E un \in usernames, e \in emails, pw \in passwords, r \in roles :
          UsersPost(un, e, pw, r)
    \/ \E id \in UserIds : UserByIDGet(id)
    \/ \E id \in UserIds, body \in bodies : UserByIDPatch(id, body)
    \/ \E id \in UserIds : UserByIDDelete(id)

\* The requests to Orders, OrderByID, FeedbackResource, Parcels and Profiles.
ResourceRequests ==
    \/ OrdersGet
    \/ \E a \in Addresses, st \in Statuses, u \in OwnerIds : OrdersPost(a, a, st, u)
    \/ \E id \in OrderIds : OrderByIDGet(id)
    \/ \E id \in OrderIds, body \in OrderPatchBodies : OrderByIDPatch(id, body)
    \/ \E id \in OrderIds : OrderByIDDelete(id)
    \/ FeedbackGet
    \/ \E u \in OwnerIds : FeedbackPost(5, "ok", u)
    \/ ParcelsGet
    \/ \E o \in {1} : ParcelsPost("box", 2, "10x10x10", o)
    \/ ProfilesGet
    \/ \E u \in OwnerIds : ProfilesPost(u, "bio", "me.png")

NoReply == Reply("", 0, 0, "", NoTokens, None)

\* The empty database.
Init ==
    /\ users = {}
    /\ orders = {}
    /\ feedbacks = {}
    /\ parcels = {}
    /\ profiles = {}
    /\ resp = NoReply
    /\ signup_pw = [i \in UserIds |-> Absent]
    /\ inflight = [p \in Procs |-> Idle]

\* Every resource, with one client (one e-mail, one password) on the user side.
OneClientBodies ==
    {b \in UserPatchBodies :
        \A a \in DOMAIN b : b[a] \in {"a@sendit.io", "pw1", "ann", "customer"}}

Next ==
    \/ UserRequests({"a@sendit.io"}, {"pw1"}, {"pw1"}, {"ann"}, {"customer"}, {"s1"},
                    OneClientBodies)
    \/ ResourceRequests

Spec == Init /\ [][Next]_vars

\* The user side alone, every field drawn from its whole set, over a database
\* whose other tables hold one row each.
InitUsers ==
    /\ users = {}
    /\ orders = AddRow({}, [id |-> 0, pickup_address |-> "1 Main St",
                            delivery_address |-> "1 Main St", status |-> "pending",
                            user_id |-> 1])
    /\ feedbacks = AddRow({}, [id |-> 0, rating |-> 5, comments |-> "ok", user_id |-> 1])
    /\ parcels = AddRow({}, [id |-> 0, description |-> "box", weight |-> 2,
                             dimensions |-> "10x10x10", order_id |-> 1])
    /\ profiles = AddRow({}, [id |-> 0, user_id |-> 1, bio |-> "bio",
                              profile_picture |-> "me.png"])
    /\ resp = NoReply
    /\ signup_pw = [i \in UserIds |-> Absent]
    /\ inflight = [p \in Procs |-> Idle]

NextUsers == UserRequests(Emails, NewPasswords, Passwords, Usernames, Roles, Salts,
                          UserPatchBodies)

SpecUsers == InitUsers /\ [][NextUsers]_vars

(***************************************************************************)
(* Concurrent workers.  Each worker has its own session: what a handler    *)
(* builds or loads stays with the worker until its commit, and the         *)
(* database applies one commit at a time.                                  *)
(***************************************************************************)
Work(op, row, body, password) ==
    [pc |-> "commit", op |-> op, row |-> row, body |-> body, password |-> password]

Done(op, email, status) == [pc |-> "done", op |-> op, email |-> email, status |-> status]

\* Signup up to the try block: the arguments parsed, the password hashed.
SignupBegin(p, email, password, username, role, salt) ==
    /\ inflight[p] = Idle
    /\ inflight' = [inflight EXCEPT ![p] =
           Work("Signup", SignupNewUser(email, password, username, role, salt),
                <<>>, password)]
    /\ UNCHANGED <<tables, resp, signup_pw>>

\* The try block of Signup.
SignupFinish(p) ==
    LET w == inflight[p]
        out == SignupCommit(users, w.row)
    IN  /\ w.pc = "commit" /\ w.op = "Signup"
        /\ out.rows # users => NewId(users) <= MaxId
        /\ users' = out.rows
        /\ signup_pw' = IF out.rows # users
                        THEN [signup_pw EXCEPT ![NewId(users)] = w.password]
                        ELSE signup_pw
        /\ inflight' = [inflight EXCEPT ![p] = Done("Signup", w.row.email, out.status)]
        /\ UNCHANGED <<orders, feedbacks, parcels, profiles, resp>>

\* POST /users up to session.add.
UsersPostBegin(p, username, email, password, role) ==
    /\ inflight[p] = Idle
    /\ inflight' = [inflight EXCEPT ![p] =
           Work("Users.post", UsersNewUser(username, email, password, role), <<>>, password)]
    /\ UNCHANGED <<tables, resp, signup_pw>>

\* The commit of POST /users.
UsersPostFinish(p) ==
    LET w == inflight[p]
        out == UsersCommit(users, w.row)
    IN  /\ w.pc = "commit" /\ w.op = "Users.post"
        /\ out.rows # users => NewId(users) <= MaxId
        /\ users' = out.rows
        /\ inflight' = [inflight EXCEPT ![p] = Done("Users.post", w.row.email, out.status)]
        /\ UNCHANGED <<orders, feedbacks, parcels, profiles, resp, signup_pw>>

\* PATCH /users/<id> up to the commit: the row loaded, or 404.
UserPatchBegin(p, id, body) ==
    LET user == QueryGet(users, id)
    IN  /\ inflight[p] = Idle
        /\ inflight' = [inflight EXCEPT ![p] =
               IF user = None THEN Done("UserByID.patch", "", 404)
               ELSE Work("UserByID.patch", user, body, "")]
        /\ UNCHANGED <<tables, resp, signup_pw>>

\* The commit of PATCH /users/<id>.
UserPatchFinish(p) ==
    LET w == inflight[p]
        out == UserPatchCommit(users, w.row, w.body)
    IN  /\ w.pc = "commit" /\ w.op = "UserByID.patch"
        /\ users' = out.rows
        /\ inflight' = [inflight EXCEPT ![p] =
               Done("UserByID.patch",
                    IF "email" \in DOMAIN w.body THEN w.body["email"] ELSE "", out.status)]
        /\ UNCHANGED <<orders, feedbacks, parcels, profiles, resp, signup_pw>>

\* The answer is sent and the worker takes the next request.
Respond(p) ==
    /\ inflight[p].pc = "done"
    /\ inflight' = [inflight EXCEPT ![p] = Idle]
    /\ UNCHANGED <<tables, resp, signup_pw>>

\* The bodies of the concurrent PATCHes: the e-mail, the password, or both.
ConcBodies == {b \in UserPatchBodies : DOMAIN b \subseteq {"email", "password"}}

NextConc ==
    \E p \in Procs :
        \/ \E e \in Emails, s \in Salts : SignupBegin(p, e, "pw1", "ann", Absent, s)
        \/ SignupFinish(p)
        \/ \E e \in Emails : UsersPostBegin(p, "ann", e, "pw1", "customer")
        \/ UsersPostFinish(p)
        \/ \E id \in UserIds, body \in ConcBodies : UserPatchBegin(p, id, body)
        \/ UserPatchFinish(p)
        \/ Respond(p)

SpecConc == Init /\ [][NextConc]_vars

(***************************************************************************)
(* Properties.                                                             *)
(***************************************************************************)
OtherTables == <<orders, feedbacks, parcels, profiles>>

Verifies(user, password) == check_password_hash(user.password, password) = "ok"

\* C1: a Signup whose e-mail no stored user holds answers 201 and adds exactly
\* one user, with the e-mail and username of the request, its role (or
\* "customer" when it gives none) and a stored password that is not the
\* plaintext; the users stored before and the other tables are unchanged.
C1_SignupCreatesOneUser ==
    [][resp'.op = "Signup" =>
        \A e \in Emails, pw \in NewPasswords, un \in Usernames,
           r \in Roles \cup {Absent}, s \in Salts :
            (SignupPost(e, pw, un, r, s) /\ ~EmailTaken(users, e, 0)) =>
                /\ resp'.status = 201
                /\ \E n \in users' :
                    /\ n \notin users
                    /\ users' = users \cup {n}
                    /\ \A u \in users : u.id # n.id
                    /\ n.email = e
                    /\ n.username = un
                    /\ n.role = (IF r = Absent THEN "customer" ELSE r)
                    /\ n.password # pw
                /\ UNCHANGED OtherTables]_vars

\* C1 witness: a Signup has just answered 201 next to an older user, and the
\* user it made holds a bcrypt hash.
C1_Witness ==
    /\ resp.op = "Signup" /\ resp.status = 201
    /\ Cardinality(users) = 2
    /\ \E u \in users : u.id = Max({v.id : v \in users}) /\ u.role = "admin"
                        /\ signup_pw[u.id] = "pw1" /\ IsBcryptHash(u.password)

\* C2 (as claimed): the password of every stored user is a bcrypt hash, never
\* a plaintext a client sent.
C2_PasswordsAreHashes ==
    \A u \in users : IsBcryptHash(u.password) /\ u.password \notin Passwords

\* C3 (as claimed): a Login whose e-mail no user holds answers 404, a Login
\* whose password does not verify against the stored password of the user
\* answers 401; neither issues a token nor changes a table.
C3_LoginRejects ==
    [][resp'.op = "Login" =>
        \A e \in Emails, pw \in Passwords, t \in 0..MaxClock, d \in 0..MaxSkew :
            LoginPost(e, pw, t, t + d) =>
                /\ (~EmailTaken(users, e, 0)) =>
                       (resp'.status = 404 /\ resp'.tokens = NoTokens /\ UNCHANGED tables)
                /\ (\E u \in users : u.email = e /\ ~Verifies(u, pw)) =>
                       (resp'.status = 401 /\ resp'.tokens = NoTokens /\ UNCHANGED tables)]_vars

\* What a successful login answers for user u when it started at t and read
\* the clock again at t2.
GoodLogin(u, t, t2) ==
    /\ resp'.status = 200
    /\ Len(resp'.tokens) = 2
    /\ resp'.tokens[1].payload.identity = u.id
    /\ resp'.tokens[2].payload.identity = u.id
    /\ resp'.tokens[1].payload.exp = t + AccessLifetime
    /\ resp'.tokens[2].payload.exp \in (t + RefreshLifetime)..(t2 + RefreshLifetime)
    /\ resp'.tokens[1].payload.exp < resp'.tokens[2].payload.exp
    /\ UNCHANGED tables

\* C4 (as claimed): a Login with the e-mail of a stored user and the password
\* that user signed up with answers 200 with two tokens carrying the id of
\* the user, the first expiring one hour and the second thirty days after the
\* login; no table changes.
C4_LoginIssuesTokens ==
    [][resp'.op = "Login" =>
        \A e \in Emails, pw \in Passwords, t \in 0..MaxClock, d \in 0..MaxSkew :
            LoginPost(e, pw, t, t + d) =>
                \A u \in users : (u.email = e /\ signup_pw[u.id] = pw) =>
                    GoodLogin(u, t, t + d)]_vars

\* The part of C4 the code keeps: a Login whose password verifies against the
\* stored hash is answered as C4 says.
LoginWithStoredHash ==
    [][resp'.op = "Login" =>
        \A e \in Emails, pw \in Passwords, t \in 0..MaxClock, d \in 0..MaxSkew :
            LoginPost(e, pw, t, t + d) =>
                \A u \in users : (u.email = e /\ Verifies(u, pw)) =>
                    GoodLogin(u, t, t + d)]_vars

UserWriters == {"Signup", "Users.post", "UserByID.patch", "UserByID.delete"}

\* C5 (as claimed): every step that changes the users table is a Signup.
C5_OnlySignupWrites == [][users' # users => resp'.op = "Signup"]_vars

\* C5 (amended): every step that changes the users table is a Signup, a
\* POST /users, a PATCH /users/<id> or a DELETE /users/<id> that answered 200
\* or 201; no other request adds, changes or removes a user.
C5_OnlyUserHandlersWrite ==
    [][users' # users => resp'.op \in UserWriters /\ resp'.status \in {200, 201}]_vars

\* C5 witness: a user row written by POST /users, not by Signup.
C5_Witness ==
    /\ resp.op = "Users.post" /\ resp.status = 201
    /\ resp.row \in users
    /\ signup_pw[resp.row.id] = Absent

\* C6: a PATCH of an existing user whose body has the one key "username" sets
\* the username of that user and changes nothing else: not its id, e-mail,
\* role or password, no other user, no other table.
C6_PatchUsernameOnly ==
    [][resp'.op = "UserByID.patch" =>
        \A id \in UserIds, un \in Usernames :
            (UserByIDPatch(id, [username |-> un]) /\ ById(users, id) # {}) =>
                LET u == QueryGet(users, id)
                IN  /\ resp'.status = 200
                    /\ users' = (users \ {u}) \cup {[u EXCEPT !.username = un]}
                    /\ UNCHANGED OtherTables]_vars

\* C6 witness: a PATCH has renamed a user made by Signup as "ann" with role
\* admin; the row still holds that role and the hash of the signup.
C6_Witness ==
    /\ resp.op = "UserByID.patch" /\ resp.status = 200
    /\ resp.row \in users
    /\ resp.row.username = "bob" /\ resp.row.role = "admin"
    /\ IsBcryptHash(resp.row.password) /\ signup_pw[resp.row.id] = "pw1"
    /\ Cardinality(users) = 2

UserByIDOps == {"UserByID.get", "UserByID.patch", "UserByID.delete"}
OrderByIDOps == {"OrderByID.get", "OrderByID.patch", "OrderByID.delete"}

\* C7: GET, PATCH (whatever its body) and DELETE of a user id or an order id
\* that no row has answer 404 and change no table.
C7_AbsentIdIs404 ==
    [][( \/ resp'.op \in UserByIDOps /\ ById(users, resp'.id) = {}
         \/ resp'.op \in OrderByIDOps /\ ById(orders, resp'.id) = {} )
       => (resp'.status = 404 /\ UNCHANGED tables)]_vars

\* C7 witness: a PATCH of an absent order id answered 404 while users and
\* orders are stored.
C7_Witness ==
    /\ resp.op = "OrderByID.patch" /\ resp.status = 404
    /\ ById(orders, resp.id) = {}
    /\ orders # {} /\ users # {}

\* C8: a DELETE of an existing order answers 200 and removes that order and
\* no other; a GET or a second DELETE of the same id served next answers 404.
C8_DeleteThenGet404 ==
    [][/\ \A id \in OrderIds :
            (OrderByIDDelete(id) /\ ById(orders, id) # {}) =>
                /\ resp'.status = 200
                /\ orders' = orders \ ById(orders, id)
                /\ ById(orders', id) = {}
                /\ UNCHANGED <<users, feedbacks, parcels, profiles>>
       /\ \A id \in OrderIds :
            ( /\ resp.op = "OrderByID.delete" /\ resp.status = 200 /\ resp.id = id
              /\ OrderByIDGet(id) \/ OrderByIDDelete(id) )
            => (resp'.status = 404 /\ UNCHANGED tables)]_vars

\* C8 witness: a DELETE has answered 200 and another order is still stored.
C8_Witness ==
    /\ resp.op = "OrderByID.delete" /\ resp.status = 200
    /\ ById(orders, resp.id) = {}
    /\ orders # {}

SignupFailed == "An error occurred while creating the user"

\* C9: a Signup whose e-mail a stored user already holds answers 500 with the
\* generic message and leaves every table as it was; a Signup with a free
\* e-mail served right after a failed one answers 201.
C9_SignupFailureRollsBack ==
    [][resp'.op = "Signup" =>
        \A e \in Emails, pw \in NewPasswords, un \in Usernames,
           r \in Roles \cup {Absent}, s \in Salts :
            SignupPost(e, pw, un, r, s) =>
                /\ EmailTaken(users, e, 0) =>
                       (resp'.status = 500 /\ resp'.msg = SignupFailed /\ UNCHANGED tables)
                /\ (resp.op = "Signup" /\ resp.status = 500 /\ ~EmailTaken(users, e, 0)) =>
                       (resp'.status = 201 /\ \E n \in users' : n.email = e)]_vars

\* C9 witness: a Signup has just failed on the e-mail of a stored user.
C9_Witness ==
    /\ resp.op = "Signup" /\ resp.status = 500 /\ resp.msg = SignupFailed
    /\ users # {}

NoDupEmail == \A u, v \in users : u.email = v.email => u = v

PendingSignup(p, e) ==
    inflight[p].pc = "commit" /\ inflight[p].op = "Signup" /\ inflight[p].row.email = e

====
